---- MODULE Spec2Model ----
(***************************************************************************)
(* A model of the intrusion detection system: the zone engine              *)
(* (zone_detector.py), the motion-based classifier and the video pipeline  *)
(* (intrusion_detector.py) and the coordinate validation (utils.py).       *)
(*                                                                         *)
(* Numbers.  Pixel coordinates are integers.  cv2.contourArea yields       *)
(* multiples of one half, so a contour carries area2, twice its area.      *)
(* A confidence is kept in units of 1/10000 (area/5000 = area2/10000) and  *)
(* a configured threshold in tenths, the step of the slider in app.py.     *)
(* A progress value frame_count / total_frames is kept as the pair         *)
(* <<frame_count, total_frames>> and compared by cross multiplication.     *)
(***************************************************************************)
EXTENDS Integers, Sequences, FiniteSets

VARIABLES
    pc,               \* position of the caller / of process_video
    detector,         \* the IntrusionDetector object, NoDetector before construction
    cap,              \* the cv2.VideoCapture: "absent", "opened", "failed", "released"
    out,              \* the cv2.VideoWriter: "absent", "opened", "failed", "released"
    props,            \* what the call was given and read: width, height, total_frames, the callback, what opened
    frame_count,      \* local frame_count
    total_intrusions, \* local total_intrusions
    frame,            \* the frame in hand
    persons,          \* local persons
    intrusions,       \* local intrusions
    delivered,        \* the contours of the frames the capture has delivered, in order
    writeCalls,       \* the frames handed to out.write, in order
    outFile,          \* the frames the writer put into the output file
    progressCalls,    \* the values handed to progress_callback, in order
    log,              \* the pipeline stages run so far, in order
    pending,          \* how the call leaves its try block: "none", "return", "raise"
    result,           \* what the call gave its caller
    input,            \* argument of the function under test
    output            \* its return value

vars == <<pc, detector, cap, out, props, frame_count, total_intrusions, frame,
          persons, intrusions, delivered, writeCalls, outFile, progressCalls, log,
          pending, result, input, output>>

\* ---------------------------------------------------------------- bounds

MaxFrames == 2
MaxPoints == 4
MaxContours == 2
MaxCoords == 2
MaxDim == 2

\* ------------------------------------------------------ program constants

BufferDistance == 20
AreaMin == 500
AreaMax == 50000
AreaNorm == 5000
ConfidenceCap == 9000
MinHeight == 50
MatchTolerance == 10
DefaultThreshold == 5

None == "none"
NoDetector == [constructed |-> FALSE]

Min(a, b) == IF a <= b THEN a ELSE b
Abs(a) == IF a < 0 THEN -a ELSE a
Point(x, y) == [x |-> x, y |-> y]

\* ------------------------------------------------------------ zone engine

Lower(t) ==
    CASE t = "Line" -> "line"
      [] t = "Polygon" -> "polygon"
      [] OTHER -> t

\* A constructor asking 2 points of either type
ZoneDetector_init_lax(zone_coords, zone_type) ==
    LET zt == Lower(zone_type) IN
    IF zt \in {"line", "polygon"} /\ Len(zone_coords) >= 2
    THEN [ok |-> TRUE, zone_type |-> zt, zone_coords |-> zone_coords]
    ELSE [ok |-> FALSE, error |-> "Invalid zone"]

\* ZoneDetector.__init__: the object built, or the ValueError raised.
ZoneDetector_init(zone_coords, zone_type) ==
    LET zt == Lower(zone_type) IN
    IF zt = "line"
    THEN IF Len(zone_coords) < 2
         THEN [ok |-> FALSE, error |-> "Line zone requires at least 2 points"]
         ELSE [ok |-> TRUE, zone_type |-> zt, zone_coords |-> zone_coords]
    ELSE IF zt = "polygon"
    THEN IF Len(zone_coords) < 3
         THEN [ok |-> FALSE, error |-> "Polygon zone requires at least 3 points"]
         ELSE [ok |-> TRUE, zone_type |-> zt, zone_coords |-> zone_coords]
    ELSE [ok |-> FALSE, error |-> "Zone type must be 'line' or 'polygon'"]

Dot(ax, ay, bx, by) == ax * bx + ay * by
Cross(ax, ay, bx, by) == ax * by - ay * bx

\* A buffer with flat caps: nothing beyond the ends of the segment
NearSegment_flat(p, a, b, r) ==
    LET dx == b.x - a.x
        dy == b.y - a.y
        len2 == Dot(dx, dy, dx, dy)
        t == Dot(p.x - a.x, p.y - a.y, dx, dy)
        c == Cross(dx, dy, p.x - a.x, p.y - a.y)
    IN  /\ len2 > 0
        /\ 0 <= t /\ t <= len2
        /\ c * c < r * r * len2

\* Is p strictly closer than r to the segment a-b?  Exact, in integers.
NearSegment(p, a, b, r) ==
    LET dx == b.x - a.x
        dy == b.y - a.y
        len2 == Dot(dx, dy, dx, dy)
        t == Dot(p.x - a.x, p.y - a.y, dx, dy)
        c == Cross(dx, dy, p.x - a.x, p.y - a.y)
    IN  IF len2 = 0 \/ t <= 0
        THEN Dot(p.x - a.x, p.y - a.y, p.x - a.x, p.y - a.y) < r * r
        ELSE IF t >= len2
        THEN Dot(p.x - b.x, p.y - b.y, p.x - b.x, p.y - b.y) < r * r
        ELSE c * c < r * r * len2

\* LineString(coords).buffer(r).contains(p).  The buffer's round caps and joins
\* are polygons inscribed in the circle of radius r (16 segments a quarter);
\* an integer point nearest to an integer vertex has an integer squared
\* distance, and r*r - 1 lies inside the polygon's inscribed circle, so the
\* polygon and the disc hold the same integer points.
BufferContains(coords, p, r) ==
    \E i \in 1..(Len(coords) - 1) : NearSegment(p, coords[i], coords[i + 1], r)

\* The vertex after the i-th, around the closed ring.
Succ(coords, i) == coords[(i % Len(coords)) + 1]

OnSegment(p, a, b) ==
    /\ Cross(b.x - a.x, b.y - a.y, p.x - a.x, p.y - a.y) = 0
    /\ Min(a.x, b.x) <= p.x /\ p.x <= (IF a.x >= b.x THEN a.x ELSE b.x)
    /\ Min(a.y, b.y) <= p.y /\ p.y <= (IF a.y >= b.y THEN a.y ELSE b.y)

\* Does the ray from p towards +x cross the edge a-b?
RayCrosses(p, a, b) ==
    /\ (a.y > p.y) # (b.y > p.y)
    /\ IF b.y > a.y
       THEN (p.x - a.x) * (b.y - a.y) < (p.y - a.y) * (b.x - a.x)
       ELSE (p.x - a.x) * (b.y - a.y) > (p.y - a.y) * (b.x - a.x)

\* Polygon(coords).contains(p) for a simple polygon: p is in the interior,
\* the boundary excluded.
PolygonContains(coords, p) ==
    /\ \A i \in 1..Len(coords) : ~OnSegment(p, coords[i], Succ(coords, i))
    /\ Cardinality({ i \in 1..Len(coords) :
                       RayCrosses(p, coords[i], Succ(coords, i)) }) % 2 = 1

\* ZoneDetector.is_point_in_zone
is_point_in_zone(zone, point) ==
    IF zone.zone_type = "line"
    THEN BufferContains(zone.zone_coords, point, BufferDistance)
    ELSE PolygonContains(zone.zone_coords, point)

\* A squared distance is a fraction <<n, d>>, d > 0.
FracLeq(f, g) == f[1] * g[2] <= g[1] * f[2]
MinFrac(S) == CHOOSE f \in S : \A g \in S : FracLeq(f, g)

RECURSIVE GCD(_, _)
GCD(a, b) == IF b = 0 THEN a ELSE GCD(b, a % b)

\* The fraction n / d in lowest terms
Reduce(n, d) == <<n \div GCD(n, d), d \div GCD(n, d)>>

\* The squared Euclidean distance from p to the segment a-b
SegDistSq(p, a, b) ==
    LET dx == b.x - a.x
        dy == b.y - a.y
        len2 == Dot(dx, dy, dx, dy)
        t == Dot(p.x - a.x, p.y - a.y, dx, dy)
        c == Cross(dx, dy, p.x - a.x, p.y - a.y)
    IN  IF len2 = 0 \/ t <= 0
        THEN <<Dot(p.x - a.x, p.y - a.y, p.x - a.x, p.y - a.y), 1>>
        ELSE IF t >= len2
        THEN <<Dot(p.x - b.x, p.y - b.y, p.x - b.x, p.y - b.y), 1>>
        ELSE Reduce(c * c, len2)

\* Point(p).distance(LineString(coords)), squared
LineDistSq(coords, p) ==
    MinFrac({ SegDistSq(p, coords[i], coords[i + 1]) : i \in 1..(Len(coords) - 1) })

\* Point(p).distance(Polygon(coords)), squared: 0 in the polygon and on its
\* boundary, the distance to the nearest edge outside.
PolygonDistSq(coords, p) ==
    IF \/ PolygonContains(coords, p)
       \/ \E i \in 1..Len(coords) : OnSegment(p, coords[i], Succ(coords, i))
    THEN <<0, 1>>
    ELSE MinFrac({ SegDistSq(p, coords[i], Succ(coords, i)) : i \in 1..Len(coords) })

\* ZoneDetector.get_distance_to_zone, squared: the distance to zone_geometry,
\* which for a line zone is the line, not its buffer.
get_distance_to_zone(zone, point) ==
    IF zone.zone_type = "line"
    THEN LineDistSq(zone.zone_coords, point)
    ELSE PolygonDistSq(zone.zone_coords, point)

\* int(v) of the quotient n / d, d > 0: truncation towards 0
Trunc(n, d) == IF n >= 0 THEN n \div d ELSE -((-n) \div d)

RECURSIVE SumX(_, _)
SumX(coords, k) == IF k = 0 THEN 0 ELSE SumX(coords, k - 1) + coords[k].x
RECURSIVE SumY(_, _)
SumY(coords, k) == IF k = 0 THEN 0 ELSE SumY(coords, k - 1) + coords[k].y

\* A centroid whose y is summed over the x coordinates
draw_zone_centroid_xx(zone_coords) ==
    Point(Trunc(SumX(zone_coords, Len(zone_coords)), Len(zone_coords)),
          Trunc(SumX(zone_coords, Len(zone_coords)), Len(zone_coords)))

\* ZoneDetector.draw_zone, the centroid the label is placed at
draw_zone_centroid(zone_coords) ==
    Point(Trunc(SumX(zone_coords, Len(zone_coords)), Len(zone_coords)),
          Trunc(SumY(zone_coords, Len(zone_coords)), Len(zone_coords)))

\* ------------------------------------------------------------- classifier

\* An area filter that keeps area 50000
AreaOk_inclusive(area2) == area2 > 2 * AreaMin /\ area2 <= 2 * AreaMax
AreaOk(area2) == area2 > 2 * AreaMin /\ area2 < 2 * AreaMax

\* 0.2 < float(w) / h < 1.0 and h > 50
ShapeOk(w, h) == 5 * w > h /\ w < h /\ h > MinHeight

\* The confidence left without its cap of 0.9
Confidence_uncapped(area2) == (area2 * 10000) \div (2 * AreaNorm)

\* min(0.9, area / 5000.0), in units of 1/10000
Confidence(area2) == Min(ConfidenceCap, (area2 * 10000) \div (2 * AreaNorm))

ConfidenceOk(area2, threshold) == Confidence(area2) >= threshold * 1000

Keep(c, threshold) ==
    AreaOk(c.area2) /\ ShapeOk(c.w, c.h) /\ ConfidenceOk(c.area2, threshold)

BBox(c) ==
    [x1 |-> c.x, y1 |-> c.y, x2 |-> c.x + c.w, y2 |-> c.y + c.h,
     confidence |-> Confidence(c.area2)]

RECURSIVE detect_loop(_, _, _)
detect_loop(contours, threshold, acc) ==
    IF contours = <<>> THEN acc
    ELSE detect_loop(Tail(contours), threshold,
                     IF Keep(Head(contours), threshold)
                     THEN Append(acc, BBox(Head(contours)))
                     ELSE acc)

\* IntrusionDetector.detect_persons, from the contours cv2.findContours yields
detect_persons(det, contours) ==
    IF ~det.model_loaded THEN <<>>
    ELSE detect_loop(contours, det.confidence_threshold, <<>>)

\* The box's top-left corner taken for its center
get_person_center_corner(bbox) == Point(bbox.x1, bbox.y1)

\* IntrusionDetector.get_person_center
get_person_center(bbox) ==
    Point((bbox.x1 + bbox.x2) \div 2, (bbox.y1 + bbox.y2) \div 2)

\* The loop of process_video over persons: <<intrusions, total_intrusions>>.
RECURSIVE check_loop(_, _, _, _)
check_loop(zone, ps, intr, total) ==
    IF ps = <<>> THEN <<intr, total>>
    ELSE IF is_point_in_zone(zone, get_person_center(Head(ps)))
         THEN check_loop(zone, Tail(ps), Append(intr, Head(ps)), total + 1)
         ELSE check_loop(zone, Tail(ps), intr, total)

\* -------------------------------------------------------------- annotator

IsIntrusion(person, intr) ==
    \E i \in 1..Len(intr) :
        /\ Abs(person.x1 - intr[i].x1) < MatchTolerance
        /\ Abs(person.y1 - intr[i].y1) < MatchTolerance

\* IntrusionDetector.draw_detections: what is drawn onto the frame.
draw_detections(zone, ps, intr) ==
    [zone |-> zone.zone_coords,
     boxes |-> [i \in 1..Len(ps) |->
                  [bbox |-> ps[i],
                   color |-> IF IsIntrusion(ps[i], intr) THEN "intrusion" ELSE "person",
                   center |-> get_person_center(ps[i])]],
     warning |-> intr # <<>>]

\* ------------------------------------------------------------- validation

\* A bound test that lets x = frame_width through
XOutside_lax(x, frame_width) == x < 0 \/ x > frame_width
XOutside(x, frame_width) == x < 0 \/ x >= frame_width
YOutside(y, frame_height) == y < 0 \/ y >= frame_height

RECURSIVE validate_loop(_, _, _, _)
validate_loop(zone_coords, i, frame_width, frame_height) ==
    IF i > Len(zone_coords) THEN <<TRUE, [msg |-> "Valid coordinates"]>>
    ELSE LET x == zone_coords[i].x
             y == zone_coords[i].y
         IN  IF XOutside(x, frame_width)
             THEN <<FALSE, [msg |-> "X coordinate is outside frame width", point |-> i,
                            value |-> x, low |-> 0, high |-> frame_width - 1]>>
             ELSE IF YOutside(y, frame_height)
             THEN <<FALSE, [msg |-> "Y coordinate is outside frame height", point |-> i,
                            value |-> y, low |-> 0, high |-> frame_height - 1]>>
             ELSE validate_loop(zone_coords, i + 1, frame_width, frame_height)

\* utils.validate_coordinates: <<is_valid, error_message>>
validate_coordinates(zone_coords, frame_width, frame_height) ==
    IF zone_coords = <<>> THEN <<FALSE, [msg |-> "No coordinates provided"]>>
    ELSE IF Len(zone_coords) < 2
    THEN <<FALSE, [msg |-> "At least 2 coordinates required"]>>
    ELSE validate_loop(zone_coords, 1, frame_width, frame_height)

\* ----------------------------------------------------------------- inputs

\* Zone vertices a caller may give: the rectangle of app.py's example and one
\* more vertex; a zone takes the first n of them.
ZoneVertices ==
    <<Point(200, 200), Point(400, 200), Point(400, 350), Point(200, 350),
      Point(150, 275), Point(150, 225)>>

ZoneTypes == {"line", "polygon", "Line", "circle"}

\* Contours cv2.findContours may yield, placed about the zones above.
CtrOnLine == [area2 |-> 6000, x |-> 280, y |-> 150, w |-> 40, h |-> 100]
CtrInPoly == [area2 |-> 5000, x |-> 330, y |-> 200, w |-> 41, h |-> 101]
CtrFar == [area2 |-> 6000, x |-> 0, y |-> 0, w |-> 40, h |-> 100]
CtrTiny == [area2 |-> 900, x |-> 300, y |-> 190, w |-> 20, h |-> 60]

\* The contours of the frames a video may hold.
FrameContours ==
    { <<>>, <<CtrOnLine, CtrInPoly>>, <<CtrInPoly, CtrFar, CtrTiny>> }

\* What cv2.VideoCapture(input_path) may be: a source that does not open
\* (every property reads 0), or one that opens and reports its properties.
Sources ==
    {[opens |-> FALSE, width |-> 0, height |-> 0, count |-> 0]}
    \cup { [opens |-> TRUE, width |-> d[1], height |-> d[2], count |-> c] :
             d \in {<<0, 0>>, <<640, 480>>}, c \in (-1)..(MaxFrames + 1) }

NoProps ==
    [width |-> 0, height |-> 0, total_frames |-> 0, callback |-> FALSE,
     cap_opened |-> FALSE, writer_opened |-> FALSE]
\* A frame as decoded, nothing drawn onto it
NotDrawn == [zone |-> <<>>, boxes |-> <<>>, warning |-> FALSE]
NoFrame == [id |-> 0, contours |-> <<>>, drawn |-> NotDrawn]

Stages == <<"read", "classify", "zone", "annotate", "write", "progress">>

\* ------------------------------------------------------------------ state

Init ==
    /\ pc = "construct"
    /\ detector = NoDetector
    /\ cap = "absent"
    /\ out = "absent"
    /\ props = NoProps
    /\ frame_count = 0
    /\ total_intrusions = 0
    /\ frame = NoFrame
    /\ persons = <<>>
    /\ intrusions = <<>>
    /\ delivered = <<>>
    /\ writeCalls = <<>>
    /\ outFile = <<>>
    /\ progressCalls = <<>>
    /\ log = <<>>
    /\ pending = None
    /\ result = None
    /\ input = None
    /\ output = None

\* --------------------------------------------------------------- pipeline

\* IntrusionDetector.__init__ with the default confidence_threshold: the
\* ZoneDetector's ValueError leaves the caller without a detector.
IntrusionDetector_init(zone_coords, zone_type) ==
    LET z == ZoneDetector_init(zone_coords, zone_type) IN
    IF z.ok
    THEN [constructed |-> TRUE, zone_detector |-> z,
          confidence_threshold |-> DefaultThreshold, intrusion_count |-> 0,
          model_loaded |-> TRUE]
    ELSE [constructed |-> FALSE, error |-> z.error]

Construct ==
    /\ pc = "construct"
    /\ \E n \in 0..Min(MaxPoints, Len(ZoneVertices)), t \in ZoneTypes :
          /\ input' = [zone_coords |-> SubSeq(ZoneVertices, 1, n), zone_type |-> t]
          /\ detector' = IntrusionDetector_init(SubSeq(ZoneVertices, 1, n), t)
    /\ pc' = IF detector'.constructed THEN "ready" ELSE "ctor_failed"
    /\ UNCHANGED <<cap, out, props, frame_count, total_intrusions, frame, persons,
                   intrusions, delivered, writeCalls, outFile, progressCalls, log,
                   pending, result, output>>

\* process_video, lines 191-197: the capture and its properties.
OpenCapture ==
    /\ pc = "ready"
    /\ \E s \in Sources, cb \in BOOLEAN :
          /\ cap' = IF s.opens THEN "opened" ELSE "failed"
          /\ props' = [width |-> s.width, height |-> s.height,
                       total_frames |-> s.count, callback |-> cb,
                       cap_opened |-> s.opens, writer_opened |-> FALSE]
    /\ pc' = "open_writer"
    /\ UNCHANGED <<detector, out, frame_count, total_intrusions, frame, persons,
                   intrusions, delivered, writeCalls, outFile, progressCalls, log,
                   pending, result, input, output>>

\* A writer of no width or no height cannot open.
WriterOutcomes(width, height) ==
    IF width > 0 /\ height > 0 THEN {"opened", "failed"} ELSE {"failed"}

\* Lines 200-204: cv2.VideoWriter returns a writer, opened or not.
OpenWriter ==
    /\ pc = "open_writer"
    /\ out' \in WriterOutcomes(props.width, props.height)
    /\ props' = [props EXCEPT !.writer_opened = (out' = "opened")]
    /\ frame_count' = 0
    /\ total_intrusions' = 0
    /\ pc' = "read"
    /\ UNCHANGED <<detector, cap, frame, persons, intrusions, delivered,
                   writeCalls, outFile, progressCalls, log, pending, result,
                   input, output>>

\* Line 201 raises (an output_path cv2 rejects): the call is left before the
\* try block is entered.
OpenWriterRaises ==
    /\ pc = "open_writer"
    /\ pc' = "raised"
    /\ result' = "exception"
    /\ UNCHANGED <<detector, cap, out, props, frame_count, total_intrusions, frame,
                   persons, intrusions, delivered, writeCalls, outFile, progressCalls,
                   log, pending, input, output>>

\* Line 208, ret true: the capture delivers its next frame.
ReadFrame ==
    /\ pc = "read"
    /\ cap = "opened"
    /\ Len(delivered) < MaxFrames
    /\ \E c \in FrameContours :
          /\ frame' = [id |-> Len(delivered) + 1, contours |-> c, drawn |-> NotDrawn]
          /\ delivered' = Append(delivered, c)
    /\ log' = Append(log, <<"read", Len(delivered) + 1>>)
    /\ pc' = "detect"
    /\ UNCHANGED <<detector, cap, out, props, frame_count, total_intrusions,
                   persons, intrusions, writeCalls, outFile, progressCalls,
                   pending, result, input, output>>

\* A loop that reads again after a failed read instead of breaking
ReadFails_retry ==
    /\ pc = "read"
    /\ pending' = "return"
    /\ pc' = "read"
    /\ UNCHANGED <<detector, cap, out, props, frame_count, total_intrusions, frame,
                   persons, intrusions, delivered, writeCalls, outFile, progressCalls,
                   log, result, input, output>>

\* Lines 208-210, ret false (end of stream, a corrupt frame, a capture that
\* never opened): break.
ReadFails ==
    /\ pc = "read"
    /\ pending' = "return"
    /\ pc' = "finally"
    /\ UNCHANGED <<detector, cap, out, props, frame_count, total_intrusions, frame,
                   persons, intrusions, delivered, writeCalls, outFile, progressCalls,
                   log, result, input, output>>

\* Line 213
DetectPersons ==
    /\ pc = "detect"
    /\ persons' = detect_persons(detector, frame.contours)
    /\ log' = Append(log, <<"classify", frame.id>>)
    /\ pc' = "zone"
    /\ UNCHANGED <<detector, cap, out, props, frame_count, total_intrusions, frame,
                   intrusions, delivered, writeCalls, outFile, progressCalls, pending,
                   result, input, output>>

\* Lines 216-221
CheckIntrusions ==
    /\ pc = "zone"
    /\ LET r == check_loop(detector.zone_detector, persons, <<>>, total_intrusions)
       IN  intrusions' = r[1] /\ total_intrusions' = r[2]
    /\ log' = Append(log, <<"zone", frame.id>>)
    /\ pc' = "draw"
    /\ UNCHANGED <<detector, cap, out, props, frame_count, frame, persons, delivered,
                   writeCalls, outFile, progressCalls, pending, result, input,
                   output>>

\* Line 224
DrawDetections ==
    /\ pc = "draw"
    /\ frame' = [frame EXCEPT
                   !.drawn = draw_detections(detector.zone_detector, persons, intrusions)]
    /\ log' = Append(log, <<"annotate", frame.id>>)
    /\ pc' = "write"
    /\ UNCHANGED <<detector, cap, out, props, frame_count, total_intrusions,
                   persons, intrusions, delivered, writeCalls, outFile, progressCalls,
                   pending, result, input, output>>

\* A loop that writes each frame twice
WriteFrame_twice ==
    /\ pc = "write"
    /\ writeCalls' = writeCalls \o <<frame, frame>>
    /\ outFile' = IF out = "opened" THEN outFile \o <<frame, frame>> ELSE outFile
    /\ log' = Append(log, <<"write", frame.id>>)
    /\ pc' = "progress"
    /\ UNCHANGED <<detector, cap, out, props, frame_count, total_intrusions, frame,
                   persons, intrusions, delivered, progressCalls, pending, result,
                   input, output>>

\* Line 227: a writer that did not open drops the frame silently.
WriteFrame ==
    /\ pc = "write"
    /\ writeCalls' = Append(writeCalls, frame)
    /\ outFile' = IF out = "opened" THEN Append(outFile, frame) ELSE outFile
    /\ log' = Append(log, <<"write", frame.id>>)
    /\ pc' = "progress"
    /\ UNCHANGED <<detector, cap, out, props, frame_count, total_intrusions, frame,
                   persons, intrusions, delivered, progressCalls, pending, result,
                   input, output>>

\* The fraction computed before frame_count is incremented
Progress_stale(count, total) == <<count - 1, total>>

\* The value line 233 computes
Progress(count, total) == <<count, total>>

\* Lines 229-234, the callback returning
ReportProgress ==
    /\ pc = "progress"
    /\ frame_count' = frame_count + 1
    /\ progressCalls' =
          IF props.callback /\ props.total_frames > 0
          THEN Append(progressCalls, Progress(frame_count + 1, props.total_frames))
          ELSE progressCalls
    /\ log' = Append(log, <<"progress", frame.id>>)
    /\ pc' = "read"
    /\ UNCHANGED <<detector, cap, out, props, total_intrusions, frame, persons,
                   intrusions, delivered, writeCalls, outFile, pending, result, input,
                   output>>

\* Lines 229-234, the callback raising
ProgressRaises ==
    /\ pc = "progress"
    /\ props.callback /\ props.total_frames > 0
    /\ frame_count' = frame_count + 1
    /\ progressCalls' = Append(progressCalls, Progress(frame_count + 1, props.total_frames))
    /\ pending' = "raise"
    /\ pc' = "finally"
    /\ UNCHANGED <<detector, cap, out, props, total_intrusions, frame, persons,
                   intrusions, delivered, writeCalls, outFile, log, result, input,
                   output>>

\* An exception out of cap.read, detect_persons, is_point_in_zone,
\* draw_detections or out.write: the try block is left for the finally clause.
Raise ==
    /\ pc \in {"read", "detect", "zone", "draw", "write"}
    /\ pending' = "raise"
    /\ pc' = "finally"
    /\ UNCHANGED <<detector, cap, out, props, frame_count, total_intrusions, frame,
                   persons, intrusions, delivered, writeCalls, outFile, progressCalls,
                   log, result, input, output>>

\* Lines 236-240
Finally ==
    /\ pc = "finally"
    /\ cap' = "released"
    /\ out' = "released"
    /\ pc' = IF pending = "return" THEN "done" ELSE "raised"
    /\ result' = IF pending = "return" THEN total_intrusions ELSE "exception"
    /\ UNCHANGED <<detector, props, frame_count, total_intrusions, frame, persons,
                   intrusions, delivered, writeCalls, outFile, progressCalls, log,
                   pending, input, output>>

Next ==
    \/ Construct
    \/ OpenCapture
    \/ OpenWriter
    \/ OpenWriterRaises
    \/ ReadFrame
    \/ ReadFails
    \/ DetectPersons
    \/ CheckIntrusions
    \/ DrawDetections
    \/ WriteFrame
    \/ ReportProgress
    \/ ProgressRaises
    \/ Raise
    \/ Finally

Spec == Init /\ [][Next]_vars

\* process_video is sequential code: every step it has reached is taken.
FairSpec == Spec /\ WF_vars(Next)

\* ------------------------------------------------- validation, on its own

Coordinates == { Point(x, y) : x \in (-1)..MaxDim, y \in (-1)..MaxDim }

RECURSIVE SeqsUpTo(_, _)
SeqsUpTo(S, n) ==
    IF n = 0 THEN { <<>> }
    ELSE LET shorter == SeqsUpTo(S, n - 1)
         IN  shorter \cup { Append(q, e) : q \in { r \in shorter : Len(r) = n - 1 }, e \in S }

InitValidate ==
    /\ pc = "validate"
    /\ detector = NoDetector
    /\ cap = "absent"
    /\ out = "absent"
    /\ props = NoProps
    /\ frame_count = 0
    /\ total_intrusions = 0
    /\ frame = NoFrame
    /\ persons = <<>>
    /\ intrusions = <<>>
    /\ delivered = <<>>
    /\ writeCalls = <<>>
    /\ outFile = <<>>
    /\ progressCalls = <<>>
    /\ log = <<>>
    /\ pending = None
    /\ result = None
    /\ input = None
    /\ output = None

\* app.py, line 102: the zone the user typed, against the video's resolution.
Validate ==
    /\ pc = "validate"
    /\ \E zc \in SeqsUpTo(Coordinates, MaxCoords), fw \in 1..MaxDim, fh \in 1..MaxDim :
          /\ input' = [zone_coords |-> zc, frame_width |-> fw, frame_height |-> fh]
          /\ output' = validate_coordinates(zc, fw, fh)
    /\ pc' = "validated"
    /\ UNCHANGED <<detector, cap, out, props, frame_count, total_intrusions, frame,
                   persons, intrusions, delivered, writeCalls, outFile,
                   progressCalls, log, pending, result>>

SpecValidate == InitValidate /\ [][Validate]_vars

\* ------------------------------------------------- classifier, on its own

\* Contours about the limits of the filters; a contour's area is at most that
\* of the rectangle spanned by the pixels of its bounding rect.
SampleShapes ==
    { <<52, 260>>, <<53, 260>>, <<259, 260>>, <<260, 260>>, <<30, 50>>, <<30, 51>> }

ContourSamples ==
    { c \in { [area2 |-> a, x |-> 10, y |-> 20, w |-> s[1], h |-> s[2]] :
                a \in {1000, 1001, 4999, 5000, 99999, 100000}, s \in SampleShapes } :
        c.area2 <= 2 * (c.w - 1) * (c.h - 1) }

\* Thresholds of the slider in app.py, in tenths.
Thresholds == {1, 5, 10}

InitDetect ==
    /\ pc = "classify"
    /\ detector = NoDetector
    /\ cap = "absent"
    /\ out = "absent"
    /\ props = NoProps
    /\ frame_count = 0
    /\ total_intrusions = 0
    /\ frame = NoFrame
    /\ persons = <<>>
    /\ intrusions = <<>>
    /\ delivered = <<>>
    /\ writeCalls = <<>>
    /\ outFile = <<>>
    /\ progressCalls = <<>>
    /\ log = <<>>
    /\ pending = None
    /\ result = None
    /\ input = None
    /\ output = None

\* detect_persons on the contours of one frame, for a detector of some threshold.
Detect ==
    /\ pc = "classify"
    /\ \E cs \in SeqsUpTo(ContourSamples, MaxContours), th \in Thresholds :
          /\ input' = [contours |-> cs, threshold |-> th]
          /\ output' = detect_persons([model_loaded |-> TRUE,
                                       confidence_threshold |-> th], cs)
    /\ pc' = "classified"
    /\ UNCHANGED <<detector, cap, out, props, frame_count, total_intrusions, frame,
                   persons, intrusions, delivered, writeCalls, outFile,
                   progressCalls, log, pending, result>>

SpecDetect == InitDetect /\ [][Detect]_vars

\* ------------------------------------------------ zone engine, on its own

\* Line zones: the line of the spec's example, a line of no length, a
\* slanted line and a line of two segments.
LineZones ==
    { <<Point(0, 0), Point(100, 0)>>,
      <<Point(50, 50), Point(50, 50)>>,
      <<Point(0, 0), Point(30, 40)>>,
      <<Point(0, 0), Point(100, 0), Point(100, 100)>> }

\* Polygon zones: two triangles and a rectangle, an L and a notched square.
PolygonZones ==
    { <<Point(0, 0), Point(90, 0), Point(0, 30)>>,
      <<Point(0, 0), Point(1, 0), Point(0, 1)>>,
      <<Point(10, 10), Point(90, 10), Point(90, 40), Point(10, 40)>>,
      <<Point(0, 0), Point(80, 0), Point(100, 60), Point(20, 60)>>,
      <<Point(0, 0), Point(0, 60), Point(60, 0)>>,
      <<Point(0, 0), Point(100, 0), Point(100, 20), Point(20, 20), Point(20, 100),
        Point(0, 100)>>,
      <<Point(0, 0), Point(60, 0), Point(60, 60), Point(30, 40), Point(0, 60)>> }

\* The zones a caller may ask for; the last two are refused.
ZoneRequests ==
    { [zone_coords |-> c, zone_type |-> "line"] : c \in LineZones }
    \cup { [zone_coords |-> c, zone_type |-> "polygon"] : c \in PolygonZones }
    \cup { [zone_coords |-> <<Point(0, 0)>>, zone_type |-> "line"],
           [zone_coords |-> <<Point(0, 0), Point(100, 0)>>, zone_type |-> "polygon"] }

\* The points asked about: a grid of step 5 about the zones, and points at
\* and just inside the distance 20 from a line's end or side.
QueryPoints ==
    { Point(5 * i, 5 * j) : i \in (-5)..25, j \in (-5)..21 }
    \cup { Point(-12, -16), Point(-12, 16), Point(-6, 19), Point(-16, 12),
           Point(-13, 16), Point(-12, 15), Point(106, 19), Point(50, 19),
           Point(50, 21), Point(1, 1) }

InitZone ==
    /\ pc = "zone_new"
    /\ detector = NoDetector
    /\ cap = "absent"
    /\ out = "absent"
    /\ props = NoProps
    /\ frame_count = 0
    /\ total_intrusions = 0
    /\ frame = NoFrame
    /\ persons = <<>>
    /\ intrusions = <<>>
    /\ delivered = <<>>
    /\ writeCalls = <<>>
    /\ outFile = <<>>
    /\ progressCalls = <<>>
    /\ log = <<>>
    /\ pending = None
    /\ result = None
    /\ input = None
    /\ output = None

\* ZoneDetector(zone_coords, zone_type)
ZoneNew ==
    /\ pc = "zone_new"
    /\ \E q \in ZoneRequests :
          input' = [request |-> q, zone |-> ZoneDetector_init(q.zone_coords, q.zone_type)]
    /\ pc' = IF input'.zone.ok THEN "zone_ready" ELSE "zone_failed"
    /\ UNCHANGED <<detector, cap, out, props, frame_count, total_intrusions, frame,
                   persons, intrusions, delivered, writeCalls, outFile,
                   progressCalls, log, pending, result, output>>

\* is_point_in_zone and get_distance_to_zone asked about one point
ZoneQuery ==
    /\ pc = "zone_ready"
    /\ \E p \in QueryPoints :
          output' = [point |-> p,
                     inside |-> is_point_in_zone(input.zone, p),
                     distance |-> get_distance_to_zone(input.zone, p)]
    /\ pc' = "queried"
    /\ UNCHANGED <<detector, cap, out, props, frame_count, total_intrusions, frame,
                   persons, intrusions, delivered, writeCalls, outFile,
                   progressCalls, log, pending, result, input>>

\* draw_zone on a polygon zone computes the label's centroid; the point at it
\* is then asked about.
ZoneQueryCentroid ==
    /\ pc = "zone_ready"
    /\ input.zone.zone_type = "polygon"
    /\ LET p == draw_zone_centroid(input.zone.zone_coords)
       IN  output' = [point |-> p,
                      inside |-> is_point_in_zone(input.zone, p),
                      distance |-> get_distance_to_zone(input.zone, p)]
    /\ pc' = "queried_centroid"
    /\ UNCHANGED <<detector, cap, out, props, frame_count, total_intrusions, frame,
                   persons, intrusions, delivered, writeCalls, outFile,
                   progressCalls, log, pending, result, input>>

NextZone == ZoneNew \/ ZoneQuery \/ ZoneQueryCentroid

SpecZone == InitZone /\ [][NextZone]_vars

\* ----------------------------------------------------------------- claims

Terminal == {"done", "raised", "ctor_failed"}
InCall == {"read", "detect", "zone", "draw", "write", "progress", "finally",
           "done", "raised"}

\* C1: process_video releases both the input capture and the output writer on
\* every path out of the call, after normal end of stream and after an
\* exception raised at any point of the call, opening the writer included: no
\* execution ends with a resource opened and not released.
C1_ReleasedOnEveryExit ==
    pc \in {"done", "raised"} => cap # "opened" /\ out # "opened"

\* The intrusions of one frame, as the claim counts them: the detections whose
\* center ((x1+x2)//2, (y1+y2)//2) the zone contains.
FrameIntrusions(contours) ==
    LET ps == detect_persons(detector, contours)
    IN  Cardinality({ j \in 1..Len(ps) :
            is_point_in_zone(detector.zone_detector,
                             Point((ps[j].x1 + ps[j].x2) \div 2,
                                   (ps[j].y1 + ps[j].y2) \div 2)) })

RECURSIVE SumIntrusions(_, _)
SumIntrusions(frames, k) ==
    IF k = 0 THEN 0 ELSE SumIntrusions(frames, k - 1) + FrameIntrusions(frames[k])

\* The frames whose zone test has run
Counted == Cardinality({ i \in 1..Len(log) : log[i][1] = "zone" })

\* C2: the running total is 0 when the loop starts and is, after each frame's
\* zone test, the sum over the frames tested so far of the number of
\* detections whose center the zone contains; the value returned is that sum
\* over every frame read.
C2_CountIsSum ==
    pc \in InCall /\ pending # "raise" =>
        /\ total_intrusions = SumIntrusions(delivered, Counted)
        /\ pc = "done" =>
              /\ Counted = Len(delivered)
              /\ result = SumIntrusions(delivered, Len(delivered))

C2_Witness ==
    /\ pc = "done"
    /\ Len(delivered) = 2
    /\ FrameIntrusions(delivered[1]) = 1
    /\ result >= 2

\* Fractions <<n, d>> with d > 0
Leq(a, b) == a[1] * b[2] <= b[1] * a[2]
IsOne(a) == a[1] = a[2]
Last(q) == q[Len(q)]

C4_ProgressInUnitInterval ==
    /\ \A k \in 1..Len(progressCalls) :
          /\ progressCalls[k][1] * props.total_frames = k * progressCalls[k][2]
          /\ Leq(<<0, 1>>, progressCalls[k])
          /\ Leq(progressCalls[k], <<1, 1>>)
    /\ props.total_frames <= 0 => progressCalls = <<>>

\* The input did not open or reports no width or height, or the output did
\* not open.
BadIO ==
    \/ ~props.cap_opened
    \/ props.width <= 0
    \/ props.height <= 0
    \/ ~props.writer_opened

\* C5: when the input cannot be opened or reports zero or invalid width or
\* height, or the output cannot be written, process_video fails with an error
\* and processes no frame; it never returns an intrusion count normally.
C5_FailsOnBadIO ==
    pc \in InCall /\ BadIO => pc # "done" /\ log = <<>>

\* The zones the claim has the constructor refuse
ZoneRejected(zone_coords, zone_type) ==
    \/ Lower(zone_type) = "line" /\ Len(zone_coords) < 2
    \/ Lower(zone_type) = "polygon" /\ Len(zone_coords) < 3
    \/ Lower(zone_type) \notin {"line", "polygon"}

\* C6: constructing a zone fails when the type is line and fewer than 2 points
\* are given, when it is polygon and fewer than 3 are given, or when it is
\* neither, and succeeds otherwise; the detector builds its zone in its
\* constructor, so the failure reaches the caller before any frame is read,
\* classified or written.
C6_ZoneConstruction ==
    pc # "construct" =>
        /\ detector.constructed <=> ~ZoneRejected(input.zone_coords, input.zone_type)
        /\ ~detector.constructed =>
              /\ pc = "ctor_failed"
              /\ cap = "absent" /\ out = "absent"
              /\ delivered = <<>> /\ log = <<>> /\ writeCalls = <<>> /\ outFile = <<>>

C6_Witness ==
    /\ pc = "ctor_failed"
    /\ input.zone_type = "polygon"
    /\ Len(input.zone_coords) = 2

\* The annotation draw_detections owes the frame of the given contours
Annotation(contours) ==
    LET ps == detect_persons(detector, contours)
    IN  draw_detections(detector.zone_detector, ps,
                        check_loop(detector.zone_detector, ps, <<>>, 0)[1])

\* C8: frames are handled one at a time in input order: read, classify, zone
\* test and count, annotate, write, all before the next frame is read; one
\* frame is written per frame read, and the k-th frame written is the
\* annotated k-th frame read.
C8_FrameOrder ==
    /\ \A i \in 1..Len(log) :
          log[i] = <<Stages[((i - 1) % Len(Stages)) + 1], ((i - 1) \div Len(Stages)) + 1>>
    /\ Len(writeCalls) <= Len(delivered)
    /\ Len(delivered) <= Len(writeCalls) + 1
    /\ (pc = "read" \/ pending = "return") => Len(writeCalls) = Len(delivered)
    /\ \A k \in 1..Len(writeCalls) :
          /\ writeCalls[k].id = k
          /\ writeCalls[k].contours = delivered[k]
          /\ writeCalls[k].drawn = Annotation(delivered[k])

C8_Witness ==
    /\ pc = "done"
    /\ Len(writeCalls) = 2
    /\ writeCalls[1].drawn.warning
    /\ ~writeCalls[2].drawn.warning

\* C9: on the first failed read the call stops reading, raises no error,
\* classifies and writes no further frame, releases its resources and returns
\* the count accumulated so far; on a finite stream the call terminates.
C9_ReadFailureEndsCall ==
    /\ [](pending = "return" => pc \in {"finally", "done"})
    /\ [][pending = "return" =>
            UNCHANGED <<delivered, log, writeCalls, outFile, total_intrusions>>]_vars
    /\ [](pc = "done" =>
            /\ pending = "return"
            /\ result = total_intrusions
            /\ cap = "released" /\ out = "released")
    /\ (pending = "return") ~> (pc = "done")
    /\ <>(pc \in Terminal)

C9_Witness ==
    /\ pc = "done"
    /\ Len(delivered) = 1
    /\ result = 1

\* The validation's verdict names the first point out of bounds and the bound
\* it breaks.
InBounds(p, w, h) == 0 <= p.x /\ p.x < w /\ 0 <= p.y /\ p.y < h

NamesFirstOffender(zc, w, h, verdict) ==
    LET i == CHOOSE j \in 1..Len(zc) :
                 ~InBounds(zc[j], w, h) /\ \A l \in 1..(j - 1) : InBounds(zc[l], w, h)
    IN  IF zc[i].x < 0 \/ zc[i].x >= w
        THEN /\ verdict.msg = "X coordinate is outside frame width"
             /\ verdict.point = i /\ verdict.value = zc[i].x
             /\ verdict.low = 0 /\ verdict.high = w - 1
        ELSE /\ verdict.msg = "Y coordinate is outside frame height"
             /\ verdict.point = i /\ verdict.value = zc[i].y
             /\ verdict.low = 0 /\ verdict.high = h - 1

BoundsVerdict(zc, w, h, verdict) ==
    IF \E i \in 1..Len(zc) : ~InBounds(zc[i], w, h)
    THEN ~verdict[1] /\ NamesFirstOffender(zc, w, h, verdict[2])
    ELSE verdict[1]

\* C7, as stated: validate_coordinates returns invalid for every list with a
\* point out of bounds, naming the first such point and its bound, and valid
\* for every list whose points are all in bounds, whatever its length.
C7_ValidIffInBounds ==
    pc = "validated" =>
        BoundsVerdict(input.zone_coords, input.frame_width, input.frame_height, output)

\* C7, amended: for a list of at least 2 points validate_coordinates returns
\* invalid iff some point is out of bounds, naming the first such point and
\* the bound it breaks (x before y); a list of fewer than 2 points is invalid
\* whatever its points, with a message about the number of points.
C7_ValidIffInBoundsFromTwo ==
    pc = "validated" =>
        IF Len(input.zone_coords) >= 2
        THEN BoundsVerdict(input.zone_coords, input.frame_width, input.frame_height, output)
        ELSE /\ ~output[1]
             /\ output[2].msg = (IF input.zone_coords = <<>>
                                 THEN "No coordinates provided"
                                 ELSE "At least 2 coordinates required")

C7_Witness ==
    /\ pc = "validated"
    /\ Len(input.zone_coords) = 2
    /\ InBounds(input.zone_coords[1], input.frame_width, input.frame_height)
    /\ input.zone_coords[2].x = input.frame_width
    /\ ~output[1]
    /\ output[2].point = 2

\* The contours the classifier owes a box: area above 500 and below 50000
\* (or up to 50000, when 50000 itself is kept), width / height strictly
\* between 0.2 and 1.0, height above 50, confidence min(0.9, area / 5000) at
\* least the threshold.
Owed(c, threshold, keeps50000) ==
    /\ c.area2 > 1000
    /\ IF keeps50000 THEN c.area2 <= 100000 ELSE c.area2 < 100000
    /\ 5 * c.w > c.h /\ c.w < c.h
    /\ c.h > 50
    /\ (IF c.area2 <= 9000 THEN c.area2 ELSE 9000) >= 1000 * threshold

\* The boxes returned are those of the contours owed one, in order.
EmitsExactly(contours, threshold, boxes, keeps50000) ==
    LET owed == { i \in 1..Len(contours) : Owed(contours[i], threshold, keeps50000) }
        rank(i) == Cardinality({ j \in owed : j <= i })
    IN  /\ Len(boxes) = Cardinality(owed)
        /\ \A i \in owed :
              /\ boxes[rank(i)].x1 = contours[i].x
              /\ boxes[rank(i)].y1 = contours[i].y
              /\ boxes[rank(i)].x2 = contours[i].x + contours[i].w
              /\ boxes[rank(i)].y2 = contours[i].y + contours[i].h

\* C10, as stated: detect_persons emits a box for a contour iff its area lies
\* in (500, 50000], 50000 kept, its width / height ratio strictly between 0.2
\* and 1.0, its height above 50 and its confidence at least the threshold.
C10_KeepsAreaUpTo50000 ==
    pc = "classified" => EmitsExactly(input.contours, input.threshold, output, TRUE)

\* C10, amended: detect_persons emits a box for a contour iff its area lies
\* strictly between 500 and 50000 (area exactly 50000 is dropped), its
\* width / height ratio strictly between 0.2 and 1.0, its height above 50 and
\* its confidence at least the threshold.
C10_KeepsAreaBelow50000 ==
    pc = "classified" => EmitsExactly(input.contours, input.threshold, output, FALSE)

C10_Witness ==
    /\ pc = "classified"
    /\ Len(input.contours) = 2
    /\ input.contours[1].area2 = 100000 /\ ShapeOk(input.contours[1].w, input.contours[1].h)
    /\ input.contours[2].area2 = 99999 /\ ShapeOk(input.contours[2].w, input.contours[2].h)
    /\ Len(output) = 1

\* C11: every detection returned carries confidence min(0.9, area / 5000),
\* which is at least 0 and at most 0.9, and none has a confidence below the
\* configured threshold; so with a threshold above 0.9, which the slider
\* allows, detect_persons returns no detection.
C11_ConfidenceClamped ==
    pc = "classified" =>
        LET cs == input.contours
            owed == { i \in 1..Len(cs) : Owed(cs[i], input.threshold, FALSE) }
            rank(i) == Cardinality({ j \in owed : j <= i })
        IN  /\ Len(output) = Cardinality(owed)
            /\ \A i \in owed :
                  output[rank(i)].confidence =
                      (IF cs[i].area2 <= 9000 THEN cs[i].area2 ELSE 9000)
            /\ \A k \in 1..Len(output) :
                  /\ output[k].confidence >= 0
                  /\ output[k].confidence <= 9000
                  /\ output[k].confidence >= 1000 * input.threshold
            /\ input.threshold > 9 => output = <<>>

C11_Witness ==
    /\ pc = "classified"
    /\ input.threshold = 5
    /\ Len(input.contours) = 2
    /\ Len(output) = 2
    /\ output[1].confidence = 9000
    /\ output[2].confidence = 5000

SqDist(p, q) == (p.x - q.x) * (p.x - q.x) + (p.y - q.y) * (p.y - q.y)

\* p lies strictly within r of the segment a-b: within r of one of its ends,
\* or beside the segment and within r of the line through it.
WithinOfSegment(p, a, b, r) ==
    \/ SqDist(p, a) < r * r
    \/ SqDist(p, b) < r * r
    \/ LET t == (p.x - a.x) * (b.x - a.x) + (p.y - a.y) * (b.y - a.y)
           c == (b.x - a.x) * (p.y - a.y) - (b.y - a.y) * (p.x - a.x)
       IN  /\ 0 < t /\ t < SqDist(a, b)
           /\ c * c < r * r * SqDist(a, b)

ExampleLine == <<Point(0, 0), Point(100, 0)>>

\* C12: for a line zone is_point_in_zone(point) is true iff the point lies
\* within 20 pixel units of the line's segments (strictly: the buffer's
\* boundary is not contained), near the segment ends included; for the line
\* from (0,0) to (100,0) the point (50,10) is inside and (50,25) is outside.
\* A line of two identical points is constructed and answers the query.
C12_LineBuffer ==
    /\ pc # "zone_new" /\ input.request.zone_type = "line"
         /\ Len(input.request.zone_coords) >= 2
       => input.zone.ok
    /\ pc = "queried" /\ input.zone.zone_type = "line" =>
         LET cs == input.zone.zone_coords IN
         /\ output.inside <=>
               \E i \in 1..(Len(cs) - 1) : WithinOfSegment(output.point, cs[i], cs[i + 1], 20)
         /\ cs = ExampleLine /\ output.point = Point(50, 10) => output.inside
         /\ cs = ExampleLine /\ output.point = Point(50, 25) => ~output.inside

C12_Witness ==
    /\ pc = "queried"
    /\ input.zone.zone_type = "line"
    /\ input.zone.zone_coords = ExampleLine
    /\ output.point = Point(-6, 19)
    /\ output.inside

\* C13: for every zone, line or polygon, and every point,
\* get_distance_to_zone is 0 whenever is_point_in_zone is true, and is
\* otherwise the distance to the nearest point of the zone geometry.
C13_DistanceZeroInside ==
    pc \in {"queried", "queried_centroid"} =>
        /\ output.inside => output.distance[1] = 0
        /\ ~output.inside =>
              \A i \in 1..Len(input.zone.zone_coords) :
                  FracLeq(output.distance, <<SqDist(output.point, input.zone.zone_coords[i]), 1>>)

\* Every turn of the ring is a strict turn to the same side.
Turn(cs, i) ==
    LET a == cs[i]
        b == Succ(cs, i)
        c == Succ(cs, (i % Len(cs)) + 1)
    IN  (b.x - a.x) * (c.y - b.y) - (b.y - a.y) * (c.x - b.x)

IsConvex(cs) ==
    \/ \A i \in 1..Len(cs) : Turn(cs, i) > 0
    \/ \A i \in 1..Len(cs) : Turn(cs, i) < 0

\* C14, as stated: for every polygon zone of at least 3 non-degenerate
\* vertices, convex or concave, is_point_in_zone is true for the point at
\* the centroid the code computes, the mean of the vertices.
C14_CentroidInside ==
    pc = "queried_centroid" => output.inside

\* C14, amended: for every convex polygon zone of at least 3 non-degenerate
\* vertices whose vertex mean has integer coordinates (so that int() cuts
\* nothing off), is_point_in_zone is true for the point at the centroid the
\* code computes.
C14_CentroidInsideConvex ==
    pc = "queried_centroid" =>
        LET cs == input.zone.zone_coords IN
        /\ IsConvex(cs)
        /\ SumX(cs, Len(cs)) % Len(cs) = 0
        /\ SumY(cs, Len(cs)) % Len(cs) = 0
        => output.inside

C14_Witness ==
    /\ pc = "queried_centroid"
    /\ IsConvex(input.zone.zone_coords)
    /\ Len(input.zone.zone_coords) = 4
    /\ output.point = Point(50, 30)
    /\ output.inside

====
